---- MODULE Spec2Model ----
(***************************************************************************)
(* State-machine model of the deep-link plugin                             *)
(* (plugins/deep-link/src/lib.rs).                                         *)
(*                                                                         *)
(* The crate is built in one of three shapes, selected by cfg(target_os):  *)
(*   android       - the foreign-callback bridge: DeepLink wraps a         *)
(*                   PluginHandle, the Channel handler broadcasts, and     *)
(*                   get_last_link() asks the foreign plugin;              *)
(*   macos / ios   - the local cache: DeepLink holds                       *)
(*                   last_link: Mutex<Option<Vec<Url>>>, written by the    *)
(*                   on_event handler on RunEvent::Opened;                 *)
(*   anything else - the local cache with an on_event handler whose body   *)
(*                   is compiled out.                                      *)
(*                                                                         *)
(* The broadcast calls are the host framework's: trigger_global reaches    *)
(* the listeners registered in-process (listen_global), emit_all reaches   *)
(* the listeners registered in the windows.  emit_all returns a Result,    *)
(* which both handlers discard.                                            *)
(***************************************************************************)
EXTENDS Integers, Sequences, FiniteSets, TLC

\* ------------------------------------------------------------------ bounds
MaxEvents == 2      \* handler invocations in one behaviour
MaxHandles == 2     \* subscription handles handed out in one behaviour
MaxUrls == 2        \* URLs in one RunEvent::Opened
MaxGets == 2        \* get_last_link() calls of the application thread (SpecLock)

\* ------------------------------------------------------------- value sets
Platforms == {"android", "macos", "linux"}   \* ios builds as macos does
Contexts == {"c1", "c2"}                     \* execution contexts running a handler
Handles == 1..MaxHandles
Urls == {"app://1", "app://2"}
EventName == "deep-link://new-url"

RECURSIVE SeqsUpTo(_, _)
SeqsUpTo(S, n) ==
  IF n = 0 THEN {<<>>}
  ELSE LET P == SeqsUpTo(S, n - 1)
       IN  P \cup {Append(s, x) : s \in {p \in P : Len(p) = n - 1}, x \in S}

\* The url lists a RunEvent::Opened can carry.
UrlLists == SeqsUpTo(Urls, MaxUrls)

\* Option<Vec<Url>>
NoneVec == [some |-> FALSE, v |-> <<>>]
SomeVec(x) == [some |-> TRUE, v |-> x]
\* Option<String>
NoneStr == [some |-> FALSE, v |-> ""]
SomeStr(s) == [some |-> TRUE, v |-> s]
\* crate::Result<Option<Vec<Url>>>
Ok(x) == [ok |-> TRUE, val |-> x]
Err == [ok |-> FALSE, val |-> NoneVec]

\* InvokeBody values the foreign side can hand to the Channel handler:
\* a raw body, or a JSON body whose "url" member is missing, is not a
\* string, or is a string.
InvokeBodies ==
  {[body |-> "Raw", hasUrl |-> FALSE, isStr |-> FALSE, url |-> ""],
   [body |-> "Json", hasUrl |-> FALSE, isStr |-> FALSE, url |-> ""],
   [body |-> "Json", hasUrl |-> TRUE, isStr |-> FALSE, url |-> ""]}
  \cup {[body |-> "Json", hasUrl |-> TRUE, isStr |-> TRUE, url |-> u] : u \in Urls}

VARIABLES
  platform,        \* the target_os the crate was built for
  pendingStartup,  \* the url list the host held pending at process start
  setupResult,     \* "none" before setup ran, then "ok" or "err"
  setupIn,         \* the outcomes of the two foreign registrations of setup
  managed,         \* DeepLink is in the application's managed state
  last_link,       \* DeepLink.last_link (local-cache builds)
  foreignUrl,      \* the foreign plugin's last known link (android); at
                   \* process start, the link it saw before the bridge was up
  registry,        \* the framework's listeners, by handle
  received,        \* per handle, the deliveries made to it, in order
  hpc,             \* per context, the position of the handler it runs
  evlog,           \* per handler invocation: its input and its progress
  ingested,        \* the invocations that returned, in order of return
  lastGet,         \* the get_last_link() call that just returned, if one did
  lock,            \* the holder of the last_link mutex, "free" if none
  gpc              \* per caller, the position of its get_last_link() call

vars == <<platform, pendingStartup, setupResult, setupIn, managed, last_link,
          foreignUrl, registry, received, hpc, evlog, ingested, lastGet,
          lock, gpc>>

\* The mutex and the callers' positions, which only the steps of
\* SpecLock move: a step of Spec takes and drops the mutex within itself.
lockvars == <<lock, gpc>>

IsAndroid == platform = "android"
IsApple == platform \in {"macos", "ios"}

\* No get_last_link() call returned in the step that led here.
NoGet == [called |-> FALSE, res |-> Ok(NoneVec), queryOk |-> TRUE,
          queried |-> FALSE]

\* The callers of get_last_link(): a thread of the application, and a
\* listener callback running inside the publish of each context.
Getters == {"main"} \cup Contexts
GetIdle == [pc |-> "idle", n |-> 0]

Idle == [pc |-> "idle", ev |-> 0, arg |-> <<>>]
Quiet == \A c \in Contexts : hpc[c].pc = "idle"
\* The contexts are interchangeable: a handler starts in the first idle one.
FirstIdle(c) == hpc[c].pc = "idle" /\ (c = "c2" => hpc["c1"].pc # "idle")

GlobalListeners == {h \in Handles : registry[h].live /\ registry[h].kind = "global"}
WindowListeners == {h \in Handles : registry[h].live /\ registry[h].kind = "window"}
Live == {h \in Handles : registry[h].live}

Init ==
  /\ platform \in Platforms
  /\ pendingStartup \in {NoneVec, SomeVec(<<"app://1">>)}
  /\ setupResult = "none"
  /\ setupIn = [reg |-> TRUE, handler |-> TRUE]
  /\ managed = FALSE
  /\ last_link = NoneVec
  /\ foreignUrl = IF IsAndroid /\ pendingStartup.some
                    THEN SomeStr(pendingStartup.v[1]) ELSE NoneStr
  /\ registry = [h \in Handles |->
                   [kind |-> "none", live |-> FALSE]]
  /\ received = [h \in Handles |-> <<>>]
  /\ hpc = [c \in Contexts |-> Idle]
  /\ evlog = <<>>
  /\ ingested = <<>>
  /\ lastGet = NoGet
  /\ lock = "free"
  /\ gpc = [g \in Getters |-> GetIdle]

\* ------------------------------------------------------------------ setup
\* init_deep_link: on android both foreign calls are followed by `?`, so
\* either failure returns Err before DeepLink is built; elsewhere it builds
\* DeepLink with an empty last_link and cannot fail.
\* Faulty variant: the result of "setEventHandler" is not looked at.
init_deep_link_unchecked(regOk, handlerOk) ==
  IF IsAndroid
    THEN [ok |-> regOk, last_link |-> NoneVec]
    ELSE [ok |-> TRUE, last_link |-> NoneVec]

init_deep_link(regOk, handlerOk) ==
  IF IsAndroid
    THEN [ok |-> regOk /\ handlerOk, last_link |-> NoneVec]
    ELSE [ok |-> TRUE, last_link |-> NoneVec]

\* The setup closure: app.manage(init_deep_link(app, api)?); Ok(()).
\* It reads nothing of the host's pending startup urls.
Setup(regOk, handlerOk) ==
  /\ setupResult = "none"
  /\ IsAndroid \/ (regOk /\ handlerOk)
  /\ LET r == init_deep_link(regOk, handlerOk)
     IN  /\ setupResult' = IF r.ok THEN "ok" ELSE "err"
         /\ managed' = r.ok
         /\ last_link' = r.last_link
  /\ setupIn' = [reg |-> regOk, handler |-> handlerOk]
  /\ UNCHANGED <<platform, pendingStartup, foreignUrl, registry, received,
                 hpc, evlog, ingested>>
  /\ lastGet' = NoGet
  /\ UNCHANGED lockvars

\* ---------------------------------------------------------- get_last_link
\* Faulty variant: a failed foreign query is answered with Ok(None).
get_last_link_swallow(queryOk) ==
  IF IsAndroid
    THEN IF queryOk
           THEN Ok(IF foreignUrl.some THEN SomeVec(<<foreignUrl.v>>) ELSE NoneVec)
           ELSE Ok(NoneVec)
    ELSE Ok(last_link)

\* Faulty variant: the foreign runtime is asked only until a callback came.
queries_foreign_lazy == IsAndroid /\ Len(ingested) = 0

\* Whether a get_last_link() call runs the foreign "getLastLink" command:
\* the android body is that call and nothing else, the other body has none.
queries_foreign == IsAndroid

\* android: run_mobile_plugin::<LastUrl>("getLastLink", ()), the url wrapped
\* in a one-element vec, the error converted and returned.
\* elsewhere: a clone of last_link taken under the lock.
get_last_link(queryOk) ==
  IF queries_foreign
    THEN IF queryOk
           THEN Ok(IF foreignUrl.some THEN SomeVec(<<foreignUrl.v>>) ELSE NoneVec)
           ELSE Err
    ELSE Ok(last_link)

\* A caller reaches DeepLink through the managed state (deep_link()).
GetLastLink(queryOk) ==
  /\ managed
  /\ queries_foreign \/ queryOk
  /\ lastGet' = [called |-> TRUE, res |-> get_last_link(queryOk),
                 queryOk |-> queryOk, queried |-> queries_foreign]
  /\ UNCHANGED <<platform, pendingStartup, setupResult, setupIn, managed,
                 last_link, foreignUrl, registry, received, hpc, evlog, ingested>>
  /\ UNCHANGED lockvars

\* ------------------------------------------------------ listener registry
\* The framework's listen / unlisten.  A handle is handed out once.
Subscribe(h, kind) ==
  /\ registry[h].kind = "none"
  /\ \A g \in Handles : g < h => registry[g].kind # "none"
  /\ registry' = [registry EXCEPT ![h] = [kind |-> kind, live |-> TRUE]]
  /\ UNCHANGED <<platform, pendingStartup, setupResult, setupIn, managed,
                 last_link, foreignUrl, received, hpc, evlog, ingested>>
  /\ lastGet' = NoGet
  /\ UNCHANGED lockvars

Unsubscribe(h) ==
  /\ registry[h].live
  /\ registry' = [registry EXCEPT ![h].live = FALSE]
  /\ UNCHANGED <<platform, pendingStartup, setupResult, setupIn, managed,
                 last_link, foreignUrl, received, hpc, evlog, ingested>>
  /\ lastGet' = NoGet
  /\ UNCHANGED lockvars

\* ------------------------------------------------------------- broadcasts
\* serde_json::to_string of a Vec<Option<String>>.
JsonElem(o) == IF o.some THEN "\"" \o o.v \o "\"" ELSE "null"

RECURSIVE JsonElems(_)
JsonElems(l) ==
  IF Len(l) = 0 THEN ""
  ELSE IF Len(l) = 1 THEN JsonElem(l[1])
  ELSE JsonElem(l[1]) \o "," \o JsonElems(Tail(l))

to_string(l) == "[" \o JsonElems(l) \o "]"

Deliver(to, d) ==
  received' = [h \in Handles |-> IF h \in to THEN Append(received[h], d) ELSE received[h]]

\* Faulty variant: the trigger also reaches the window listeners.
trigger_global_all(ev, data) ==
  Deliver(Live,
          [ev |-> ev, name |-> EventName, chan |-> "trigger_global",
           data |-> data, list |-> <<>>, seen |-> last_link])

\* trigger_global(name, Some(data)): every in-process listener, no result.
trigger_global(ev, data) ==
  Deliver(GlobalListeners,
          [ev |-> ev, name |-> EventName, chan |-> "trigger_global",
           data |-> data, list |-> <<>>, seen |-> last_link])

\* Faulty variant: listeners that were removed are still reached.
emit_all_stale(ev, payload, to) ==
  Deliver(to \cup {h \in Handles : registry[h].kind = "window"},
          [ev |-> ev, name |-> EventName, chan |-> "emit_all",
           data |-> "", list |-> payload, seen |-> last_link])

\* emit_all(name, payload): the window listeners, one window after the
\* other; a window that fails ends the call with Err, so the listeners
\* reached are `to`, all of them exactly when the call returns Ok.
emit_all(ev, payload, to) ==
  Deliver(to,
          [ev |-> ev, name |-> EventName, chan |-> "emit_all",
           data |-> "", list |-> payload, seen |-> last_link])

\* The windows at which an emit_all call that reached `to` can have ended:
\* none (0) when every window listener was reached, else one that was not.
\* The call returns one Result and returns at the first Err, so the other
\* listeners outside `to` were never tried.
FailedAt(to) ==
  IF to = WindowListeners THEN {0} ELSE WindowListeners \ to

\* The record of a broadcast call a handler made, whoever listened.
TriggerCall(data) ==
  [chan |-> "trigger_global", name |-> EventName, data |-> data, list |-> <<>>]
EmitCall(payload) ==
  [chan |-> "emit_all", name |-> EventName, data |-> "", list |-> payload]

\* --------------------------------------------- the on_event handler (apple)
\* Bookkeeping of a handler invocation that starts now.
NewEntry(arg, url) ==
  [arg |-> arg, url |-> url, subs |-> Live, published |-> FALSE,
   emitOk |-> TRUE, failedAt |-> 0, done |-> FALSE, ret |-> "running",
   calls |-> <<>>]

\* RunEvent::Opened { urls }, first statement:
\*   let _ = _app.emit_all("deep-link://new-url", urls);
\* On a build that is neither macos nor ios the handler body is empty, and
\* no RunEvent changes anything.
OnEventEmit(c, urls, to) ==
  /\ IsApple
  /\ setupResult = "ok"
  /\ FirstIdle(c)
  /\ Len(evlog) < MaxEvents
  /\ to \subseteq WindowListeners
  /\ LET ev == Len(evlog) + 1
     IN  /\ emit_all(ev, urls, to)
         /\ \E w \in FailedAt(to) :
              evlog' = Append(evlog, [NewEntry(urls, NoneStr) EXCEPT
                                        !.published = TRUE,
                                        !.emitOk = (to = WindowListeners),
                                        !.failedAt = w,
                                        !.calls = <<EmitCall(urls)>>])
         /\ hpc' = [hpc EXCEPT ![c] = [pc |-> "emitted", ev |-> ev, arg |-> urls]]
  /\ UNCHANGED <<platform, pendingStartup, setupResult, setupIn, managed,
                 last_link, foreignUrl, registry, ingested>>
  /\ lastGet' = NoGet
  /\ UNCHANGED lockvars

\* Faulty variant: the slot is filled only while it is empty.
replace_if_empty(slot, urls) == IF slot.some THEN slot ELSE SomeVec(urls)

\* Faulty variant: the urls are stored in sorted order.
replace_sorted(slot, urls) ==
  SomeVec(IF Len(urls) = 2 /\ urls[1] = "app://2" /\ urls[2] = "app://1"
            THEN <<urls[2], urls[1]>> ELSE urls)

\* Faulty variant: the urls are added to those the slot holds.
replace_merge(slot, urls) == SomeVec(slot.v \o urls)

\* Faulty variant: an event without urls empties the slot.
replace_clear(slot, urls) == IF urls = <<>> THEN NoneVec ELSE SomeVec(urls)

\* The value the handler leaves in the slot:
\*   last_link.lock().unwrap().replace(urls.clone())
replace(slot, urls) == SomeVec(urls)

\* RunEvent::Opened { urls }, second statement, and the handler's return.
OnEventReplace(c) ==
  /\ hpc[c].pc = "emitted"
  /\ last_link' = replace(last_link, hpc[c].arg)
  /\ evlog' = [evlog EXCEPT ![hpc[c].ev].done = TRUE,
                            ![hpc[c].ev].ret = "unit"]
  /\ ingested' = Append(ingested, hpc[c].ev)
  /\ hpc' = [hpc EXCEPT ![c] = Idle]
  /\ UNCHANGED <<platform, pendingStartup, setupResult, setupIn, managed,
                 foreignUrl, registry, received>>
  /\ lastGet' = NoGet
  /\ UNCHANGED lockvars

\* ------------------------------------------- the Channel handler (android)
\* payload.get("url").and_then(|v| v.as_str()).map(|s| s.to_owned()), and
\* None for a body that is not JSON.
ExtractUrl(event) ==
  IF event.body = "Json" /\ event.hasUrl /\ event.isStr
    THEN SomeStr(event.url) ELSE NoneStr

\* The handler up to and including trigger_global: the url is decoded,
\* wrapped in a one-element vec whatever it is, and its JSON text is
\* triggered.  There is no branch on the url being None.
ChannelHandlerTrigger(c, event) ==
  /\ IsAndroid
  /\ setupResult = "ok"
  /\ FirstIdle(c)
  /\ Len(evlog) < MaxEvents
  /\ LET ev == Len(evlog) + 1
         url == ExtractUrl(event)
         payload == <<url>>
     IN  /\ trigger_global(ev, to_string(payload))
         /\ evlog' = Append(evlog, [NewEntry(payload, url) EXCEPT
                                      !.calls = <<TriggerCall(to_string(payload))>>])
         /\ hpc' = [hpc EXCEPT ![c] = [pc |-> "triggered", ev |-> ev, arg |-> payload]]
  /\ UNCHANGED <<platform, pendingStartup, setupResult, setupIn, managed,
                 last_link, registry, ingested>>
  /\ lastGet' = NoGet
  /\ UNCHANGED lockvars

\* Faulty variant: a payload without a url is reported as a failure.
handler_result_strict(url, emitOk) == IF url.some THEN "Ok" ELSE "Err"

\* What the Channel handler returns to the foreign runtime: the decoded url
\* is never inspected, the result of emit_all is dropped by `let _ =`, and
\* the closure ends in Ok(()).
handler_result(url, emitOk) == "Ok"

\* let _ = app_handle.emit_all("deep-link://new-url", payload); Ok(())
ChannelHandlerEmit(c, to) ==
  /\ hpc[c].pc = "triggered"
  /\ to \subseteq WindowListeners
  /\ emit_all(hpc[c].ev, hpc[c].arg, to)
  /\ \E w \in FailedAt(to) :
       evlog' = [evlog EXCEPT ![hpc[c].ev].published = TRUE,
                              ![hpc[c].ev].emitOk = (to = WindowListeners),
                              ![hpc[c].ev].failedAt = w,
                              ![hpc[c].ev].calls = Append(@, EmitCall(hpc[c].arg)),
                              ![hpc[c].ev].done = TRUE,
                              ![hpc[c].ev].ret =
                                 handler_result(evlog[hpc[c].ev].url,
                                                to = WindowListeners)]
  /\ ingested' = Append(ingested, hpc[c].ev)
  /\ hpc' = [hpc EXCEPT ![c] = Idle]
  /\ UNCHANGED <<platform, pendingStartup, setupResult, setupIn, managed,
                 last_link, foreignUrl, registry>>
  /\ lastGet' = NoGet
  /\ UNCHANGED lockvars

\* The foreign plugin sees a link: it remembers it as its last known link
\* and sends {"url": u} to the registered handler.
ForeignNewIntent(c, u) ==
  /\ ChannelHandlerTrigger(c, [body |-> "Json", hasUrl |-> TRUE, isStr |-> TRUE, url |-> u])
  /\ foreignUrl' = SomeStr(u)

\* The foreign side invokes the handler with a body that carries no url
\* string; its last known link stays what it was.
ForeignOtherMessage(c, event) ==
  /\ ~ExtractUrl(event).some
  /\ ChannelHandlerTrigger(c, event)
  /\ foreignUrl' = foreignUrl

\* ----------------------------------------------------------- specification
Next ==
  \/ \E r, h \in BOOLEAN : Setup(r, h)
  \/ \E q \in BOOLEAN : GetLastLink(q)
  \/ \E h \in Handles, k \in {"global", "window"} : Subscribe(h, k)
  \/ \E h \in Handles : Unsubscribe(h)
  \/ \E c \in Contexts, urls \in UrlLists, to \in SUBSET Handles : OnEventEmit(c, urls, to)
  \/ \E c \in Contexts : OnEventReplace(c)
  \/ \E c \in Contexts, u \in Urls : ForeignNewIntent(c, u)
  \/ \E c \in Contexts, e \in InvokeBodies : ForeignOtherMessage(c, e)
  \/ \E c \in Contexts, to \in SUBSET Handles : ChannelHandlerEmit(c, to)

Spec == Init /\ [][Next]_vars

\* ------------------------------------------- the mutex, statement by step
\* The local-cache builds again, with the handler and get_last_link() cut
\* at every point where a thread can wait: the publish with the listener
\* callbacks it runs, lock(), and the end of the statement that holds the
\* guard.  std's Mutex is not reentrant: lock() waits while anyone, the
\* calling thread included, holds it.
HandlerId(c) == "handler:" \o c
GetterId(g) == "get:" \o g

\* Faulty variant: the handler takes the mutex before it publishes.
lock_during_emit_held(c, lk) == IF lk = "free" THEN HandlerId(c) ELSE lk

\* The mutex while the handler publishes: `let _ = _app.emit_all(..)` is a
\* statement of its own, before the one that calls lock().
lock_during_emit(c, lk) == lk

\* RunEvent::Opened { urls }: emit_all starts notifying the listeners
\* (a publish in which no window fails).
EmitAllBegin(c, urls) ==
  /\ IsApple
  /\ setupResult = "ok"
  /\ FirstIdle(c)
  /\ Len(evlog) < MaxEvents
  /\ LET ev == Len(evlog) + 1
     IN  /\ emit_all(ev, urls, WindowListeners)
         /\ evlog' = Append(evlog, [NewEntry(urls, NoneStr) EXCEPT
                                      !.published = TRUE,
                                      !.calls = <<EmitCall(urls)>>])
         /\ hpc' = [hpc EXCEPT ![c] = [pc |-> "notifying", ev |-> ev, arg |-> urls]]
  /\ lock' = lock_during_emit(c, lock)
  /\ UNCHANGED <<platform, pendingStartup, setupResult, setupIn, managed,
                 last_link, foreignUrl, registry, ingested, gpc>>
  /\ lastGet' = NoGet

\* A listener that was notified calls get_last_link() from its callback,
\* on the thread that publishes.
EmitAllCallbackGet(c) ==
  /\ hpc[c].pc = "notifying"
  /\ gpc[c].pc = "idle"
  /\ \E h \in Handles : \E i \in DOMAIN received[h] :
       received[h][i].ev = hpc[c].ev
  /\ gpc' = [gpc EXCEPT ![c].pc = "waiting"]
  /\ UNCHANGED <<platform, pendingStartup, setupResult, setupIn, managed,
                 last_link, foreignUrl, registry, received, hpc, evlog,
                 ingested, lock>>
  /\ lastGet' = NoGet

\* emit_all returns once the callbacks it ran have returned.
EmitAllReturn(c) ==
  /\ hpc[c].pc = "notifying"
  /\ gpc[c].pc \in {"idle", "done"}
  /\ hpc' = [hpc EXCEPT ![c].pc = "emitted"]
  /\ gpc' = [gpc EXCEPT ![c] = GetIdle]
  /\ UNCHANGED <<platform, pendingStartup, setupResult, setupIn, managed,
                 last_link, foreignUrl, registry, received, evlog, ingested,
                 lock>>
  /\ lastGet' = NoGet

\* last_link.lock().unwrap()
LastLinkLock(c) ==
  /\ hpc[c].pc = "emitted"
  /\ lock = "free"
  /\ lock' = HandlerId(c)
  /\ hpc' = [hpc EXCEPT ![c].pc = "locked"]
  /\ UNCHANGED <<platform, pendingStartup, setupResult, setupIn, managed,
                 last_link, foreignUrl, registry, received, evlog, ingested,
                 gpc>>
  /\ lastGet' = NoGet

\* .replace(urls.clone()); the guard is dropped at the end of the
\* statement and the handler returns.
LastLinkReplace(c) ==
  /\ hpc[c].pc = "locked"
  /\ last_link' = replace(last_link, hpc[c].arg)
  /\ lock' = "free"
  /\ evlog' = [evlog EXCEPT ![hpc[c].ev].done = TRUE,
                            ![hpc[c].ev].ret = "unit"]
  /\ ingested' = Append(ingested, hpc[c].ev)
  /\ hpc' = [hpc EXCEPT ![c] = Idle]
  /\ UNCHANGED <<platform, pendingStartup, setupResult, setupIn, managed,
                 foreignUrl, registry, received, gpc>>
  /\ lastGet' = NoGet

\* The application thread calls get_last_link().
GetLastLinkCall ==
  /\ ~IsAndroid
  /\ managed
  /\ gpc["main"].pc \in {"idle", "done"}
  /\ gpc["main"].n < MaxGets
  /\ gpc' = [gpc EXCEPT !["main"] = [pc |-> "waiting", n |-> @.n + 1]]
  /\ UNCHANGED <<platform, pendingStartup, setupResult, setupIn, managed,
                 last_link, foreignUrl, registry, received, hpc, evlog,
                 ingested, lock>>
  /\ lastGet' = NoGet

\* self.last_link.lock().unwrap()
GetLastLinkLock(g) ==
  /\ gpc[g].pc = "waiting"
  /\ lock = "free"
  /\ lock' = GetterId(g)
  /\ gpc' = [gpc EXCEPT ![g].pc = "locked"]
  /\ UNCHANGED <<platform, pendingStartup, setupResult, setupIn, managed,
                 last_link, foreignUrl, registry, received, hpc, evlog,
                 ingested>>
  /\ lastGet' = NoGet

\* .clone() under the guard, the guard dropped, Ok(..) returned.
GetLastLinkReturn(g) ==
  /\ gpc[g].pc = "locked"
  /\ lastGet' = [called |-> TRUE, res |-> get_last_link(TRUE),
                 queryOk |-> TRUE, queried |-> queries_foreign]
  /\ lock' = "free"
  /\ gpc' = [gpc EXCEPT ![g].pc = "done"]
  /\ UNCHANGED <<platform, pendingStartup, setupResult, setupIn, managed,
                 last_link, foreignUrl, registry, received, hpc, evlog,
                 ingested>>

InitLock == Init /\ ~IsAndroid

NextLock ==
  \/ \E r, h \in BOOLEAN : Setup(r, h)
  \/ \E h \in Handles : Subscribe(h, "window")
  \/ \E c \in Contexts, urls \in UrlLists : EmitAllBegin(c, urls)
  \/ \E c \in Contexts : EmitAllCallbackGet(c)
  \/ \E c \in Contexts : EmitAllReturn(c)
  \/ \E c \in Contexts : LastLinkLock(c)
  \/ \E c \in Contexts : LastLinkReplace(c)
  \/ GetLastLinkCall
  \/ \E g \in Getters : GetLastLinkLock(g)
  \/ \E g \in Getters : GetLastLinkReturn(g)

\* A thread that can take its next step takes it: the publish returns, a
\* lock() on a free mutex succeeds, a statement holding the guard ends.
\* Nothing obliges the host to open another url or the application to call.
FairLock ==
  /\ \A c \in Contexts :
       /\ WF_vars(EmitAllReturn(c))
       /\ WF_vars(LastLinkLock(c))
       /\ WF_vars(LastLinkReplace(c))
  /\ \A g \in Getters :
       /\ WF_vars(GetLastLinkLock(g))
       /\ WF_vars(GetLastLinkReturn(g))

SpecLock == InitLock /\ [][NextLock]_vars /\ FairLock

\* ------------------------------------------------------------ properties
\* The url sequence of handler invocation e: the list of the Opened event,
\* or the one url of the bridge payload.
UrlsOf(e) == IF IsAndroid THEN <<evlog[e].url.v>> ELSE evlog[e].arg

\* An invocation that carried a LinkEvent (a bridge payload without a url
\* string carries none).
IsLinkEvent(e) == IsAndroid => evlog[e].url.some

\* The LinkEvents whose handler has returned, in order of return.
Ingested == SelectSeq(ingested, IsLinkEvent)
LastIngested == Ingested[Len(Ingested)]

\* Number of deliveries of invocation e to handle h.
Count(h, e) == Cardinality({i \in DOMAIN received[h] : received[h][i].ev = e})

C2_ReplaceBeforePublish ==
  IsApple =>
    \A h \in Handles : \A i \in DOMAIN received[h] :
      received[h][i].seen = SomeVec(received[h][i].list)

\* C3: a bridge invocation whose payload has no usable "url" string is
\* delivered to no listener on either broadcast channel.
C3_MalformedPublishesNothing ==
  IsAndroid =>
    \A e \in DOMAIN evlog : ~evlog[e].url.some => \A h \in Handles : Count(h, e) = 0

C6_ExactlyOnce ==
  \A e \in DOMAIN evlog :
    (evlog[e].done /\ evlog[e].emitOk /\ IsLinkEvent(e)) =>
      \A h \in evlog[e].subs : registry[h].live => Count(h, e) = 1

\* C7: urls the host held pending at process start are what the first
\* get_last_link() after setup returns, before any live notification
\* (local-cache builds).
C7_StartupLinkKept ==
  (lastGet.called /\ ~IsAndroid /\ pendingStartup.some /\ Len(evlog) = 0)
    => lastGet.res = Ok(pendingStartup)

\* C8: on the bridge build setup fails, and installs no DeepLink state,
\* when registering the foreign plugin or "setEventHandler" fails; it
\* succeeds and installs the state exactly when both succeed.
C8_SetupFailsOnRegistrationFailure ==
  (IsAndroid /\ setupResult # "none") =>
    /\ (setupResult = "ok") <=> (setupIn.reg /\ setupIn.handler)
    /\ (setupResult = "err") <=> ~(setupIn.reg /\ setupIn.handler)
    /\ managed <=> (setupResult = "ok")

\* The plugin registered, "setEventHandler" failed, setup failed and
\* nothing is managed.
C8_Witness ==
  /\ IsAndroid /\ setupResult = "err" /\ ~managed
  /\ setupIn.reg /\ ~setupIn.handler

\* C9: what is stored and what is delivered is the sequence the handler was
\* given, element for element: the slot holds the url list of the event
\* whose handler returned last, every emit_all delivery carries the list of
\* its event (on the bridge, the one-element list of the payload's url),
\* and every trigger_global delivery carries the JSON text of that list.
C9_OrderAndMultiplicityKept ==
  /\ (IsApple /\ Len(ingested) >= 1)
       => last_link = SomeVec(evlog[ingested[Len(ingested)]].arg)
  /\ \A h \in Handles : \A i \in DOMAIN received[h] :
       LET d == received[h][i]
       IN  /\ d.chan = "emit_all" =>
                d.list = IF IsAndroid THEN <<evlog[d.ev].url>> ELSE evlog[d.ev].arg
           /\ d.chan = "trigger_global" =>
                d.data = IF evlog[d.ev].url.some
                           THEN "[\"" \o evlog[d.ev].url.v \o "\"]" ELSE "[null]"

\* An event whose two urls are not in sorted order, and one with the same
\* url twice, were delivered and stored as they came.
C9_Witness ==
  /\ IsApple /\ Len(ingested) = 2 /\ Quiet
  /\ evlog[ingested[1]].arg = <<"app://1", "app://1">>
  /\ evlog[ingested[2]].arg = <<"app://2", "app://1">>
  /\ last_link = SomeVec(<<"app://2", "app://1">>)
  /\ \E h \in Handles :
       /\ Len(received[h]) = 2
       /\ received[h][1].list = <<"app://1", "app://1">>
       /\ received[h][2].list = <<"app://2", "app://1">>

\* C10: once a handle has been unsubscribed nothing more is delivered to
\* it, whatever publish was in progress when it was removed.
C10_NoDeliveryAfterUnsubscribe ==
  [][\A h \in Handles :
       (registry[h].kind # "none" /\ ~registry[h].live) => received'[h] = received[h]]_vars

\* Handle h received event 1 and was unsubscribed while the handler of
\* event 1 was still running; event 2 was then published to another
\* listener of the same kind and not to h.
C10_Witness ==
  \E h, g \in Handles :
    /\ h # g /\ registry[h].kind = registry[g].kind
    /\ ~registry[h].live /\ registry[g].live
    /\ \E c \in Contexts : hpc[c].pc # "idle" /\ hpc[c].ev = 1
    /\ Count(h, 1) = 1 /\ Count(h, 2) = 0
    /\ Count(g, 2) = 1

C13_DecodeFailureNotFatal ==
  IsAndroid =>
    \A e \in DOMAIN evlog :
      /\ evlog[e].done => evlog[e].ret = "Ok"
      /\ \A h \in Handles : Count(h, e) <= 1
      /\ (evlog[e].url.some /\ \E d \in 1..(e - 1) : ~evlog[d].url.some) =>
           \A h \in Handles :
             /\ (h \in evlog[e].subs /\ registry[h].kind = "global") =>
                  \E i \in DOMAIN received[h] :
                    /\ received[h][i].ev = e
                    /\ received[h][i].chan = "trigger_global"
                    /\ received[h][i].data = "[\"" \o evlog[e].url.v \o "\"]"
             /\ (evlog[e].done /\ evlog[e].emitOk /\ h \in evlog[e].subs
                   /\ registry[h].kind = "window" /\ registry[h].live) =>
                  \E i \in DOMAIN received[h] :
                    /\ received[h][i].ev = e
                    /\ received[h][i].chan = "emit_all"
                    /\ received[h][i].list = <<SomeStr(evlog[e].url.v)>>

\* A payload without a url was handled and answered with Ok, then a payload
\* with a url was handled, answered with Ok, and reached a listener of each
\* kind.
C13_Witness ==
  /\ IsAndroid /\ Quiet /\ Len(ingested) = 2
  /\ ~evlog[1].url.some /\ evlog[1].ret = "Ok"
  /\ evlog[2].url.some /\ evlog[2].ret = "Ok"
  /\ \E h, g \in Handles :
       /\ registry[h].kind = "global" /\ registry[g].kind = "window"
       /\ Count(h, 2) = 1 /\ Count(g, 2) = 1

\* C14: a failure while an event is delivered (emit_all returns Err) is
\* isolated.  The handler does not pass it on to its caller; every window
\* listener other than the one whose delivery failed still receives the
\* event; and on the builds with a slot, the slot holds the event's urls
\* when its handler has returned.
C14_DeliveryFailureIsolated ==
  \A e \in DOMAIN evlog : (evlog[e].done /\ ~evlog[e].emitOk) =>
    /\ evlog[e].ret \in {"Ok", "unit"}
    /\ \A h \in Handles :
         (h \in evlog[e].subs /\ registry[h].kind = "window"
            /\ registry[h].live /\ h # evlog[e].failedAt) => Count(h, e) = 1
    /\ (IsApple /\ ingested[Len(ingested)] = e) =>
         last_link = SomeVec(evlog[e].arg)

\* C15: on the builds with a slot, the mutex is never held by a handler
\* while that handler notifies the listeners; whoever holds the mutex is
\* inside the one statement that ends by dropping it, so nobody waits for a
\* thread that waits itself; and every get_last_link() call that has
\* started returns, be it made from a listener callback during a publish or
\* from another thread while handlers run, with no further url opened.
C15_GetNeverBlocks ==
  /\ [](\A c \in Contexts : hpc[c].pc = "notifying" => lock # HandlerId(c))
  /\ [](lock # "free" =>
          \/ \E c \in Contexts : lock = HandlerId(c) /\ hpc[c].pc = "locked"
          \/ \E g \in Getters : lock = GetterId(g) /\ gpc[g].pc = "locked")
  /\ \A g \in Getters : (gpc[g].pc = "waiting") ~> (gpc[g].pc = "done")

\* A get_last_link() made from a listener callback has returned while its
\* publish is still going on and the other context is inside its handler.
C15_Witness ==
  \E c, d \in Contexts :
    /\ c # d
    /\ hpc[c].pc = "notifying" /\ gpc[c].pc = "done"
    /\ hpc[d].pc # "idle"
    /\ lastGet.called /\ lastGet.res.ok

\* C16: no partial reads.  On the builds with a slot, under every
\* interleaving of handlers and get_last_link() calls cut at lock(), the
\* value a call returns is none, and then no replace had completed when it
\* took its copy, or it is the whole url list, unchanged, of one handled
\* event whose replace had completed by then (the last such event).
C16_NoPartialRead ==
  lastGet.called =>
    /\ lastGet.res.ok
    /\ ~lastGet.res.val.some <=> Len(ingested) = 0
    /\ lastGet.res.val.some =>
         /\ \E i \in DOMAIN ingested :
              lastGet.res.val.v = evlog[ingested[i]].arg
         /\ lastGet.res.val.v = evlog[ingested[Len(ingested)]].arg

\* A call returned the two urls of the first event, in order, while the
\* handler of a second event with other urls was between its publish and
\* its replace.
C16_Witness ==
  /\ lastGet.called /\ Len(ingested) = 1 /\ Len(evlog) = 2
  /\ lastGet.res = Ok(SomeVec(<<"app://2", "app://1">>))
  /\ evlog[ingested[1]].arg = <<"app://2", "app://1">>
  /\ \E c \in Contexts : hpc[c].pc = "emitted" /\ hpc[c].arg = <<"app://1">>

\* C17: on every build that handles events, the handler of each event makes
\* two broadcast calls under "deep-link://new-url", one trigger_global with
\* the JSON text of the list and one emit_all with the list, once each and
\* with the same contents.
C17_BothChannels ==
  \A e \in DOMAIN evlog : evlog[e].done =>
    LET calls == evlog[e].calls
        onChan(ch) == {i \in DOMAIN calls : calls[i].chan = ch}
    IN  /\ \A i \in DOMAIN calls : calls[i].name = "deep-link://new-url"
        /\ Cardinality(onChan("emit_all")) = 1
        /\ Cardinality(onChan("trigger_global")) = 1
        /\ \A i \in onChan("trigger_global"), j \in onChan("emit_all") :
             calls[i].data = to_string(calls[j].list)

\* C18: monotonic presence on the builds with a slot.  The slot is empty
\* until a handler has returned; only the step in which the handler of a
\* RunEvent::Opened returns changes it; no step takes it from some value
\* to none; and every get_last_link() returns the slot as it is.  So once a
\* call has returned a value no later call returns none, and on a build
\* whose handler body is empty every call returns none.
C18_MonotonicPresence ==
  /\ []((~IsAndroid /\ Len(ingested) = 0) => ~last_link.some)
  /\ [][~IsAndroid =>
          /\ last_link' # last_link =>
               \E c \in Contexts : hpc[c].pc = "emitted" /\ hpc'[c].pc = "idle"
          /\ last_link.some => last_link'.some]_vars
  /\ []((lastGet.called /\ ~IsAndroid) => lastGet.res = Ok(last_link))
  /\ []((~IsAndroid /\ ~IsApple) =>
          /\ ~last_link.some
          /\ lastGet.called => lastGet.res = Ok(NoneVec))

\* After an event with a url, an event with no url at all was handled: the
\* call that followed returned the empty list, not none.
C18_Witness ==
  /\ IsApple /\ Quiet /\ Len(ingested) = 2
  /\ evlog[ingested[1]].arg # <<>>
  /\ evlog[ingested[2]].arg = <<>>
  /\ lastGet.called /\ lastGet.res = Ok(SomeVec(<<>>))

\* C19: publish order agrees with slot order.  When two events were handled
\* in different contexts, however their handlers interleaved, a listener
\* that received both received them in the order in which their replaces
\* took effect, so once both handlers have returned get_last_link() returns
\* the urls of the event that listener received last.
C19_PublishOrderIsCacheOrder ==
  (IsApple /\ Quiet /\ Len(ingested) = 2) =>
    \A h \in Handles : (Count(h, 1) = 1 /\ Count(h, 2) = 1) =>
      /\ received[h][Len(received[h])].ev = ingested[2]
      /\ last_link = SomeVec(received[h][Len(received[h])].list)
      /\ lastGet.called =>
           lastGet.res = Ok(SomeVec(received[h][Len(received[h])].list))
====
